---- MODULE Spec2Model ----
(***************************************************************************)
(* Meeting-Summarizer: the FastAPI backend (src/backend/main.py) and the   *)
(* Streamlit front end (src/frontend/main.py).                             *)
(*                                                                         *)
(* Strings whose content matters (model outputs, transcripts) are          *)
(* sequences of one-character strings, so that the regular expression of   *)
(* clean_thought_blocks, str.strip and str.split are computed character by *)
(* character.                                                              *)
(***************************************************************************)
EXTENDS Integers, Sequences, FiniteSets, TLC

VARIABLES
    \* clean_thought_blocks applied to one raw model output
    cleanPc, generated_text, cleaned_text,
    \* one generate_report request (backend)
    grPc,                \* position of the handler
    text,                \* req.transcript
    discussion_type,
    summary_output, keypoint_output,
    problem_solution_tech_output, action_item_output,
    invocations,         \* the model calls made so far, in order
    llm_responses,       \* the raw outputs the language model returned, in order
    raised,              \* what a model call raised in this request, if any
    grStatus, grDetail, response,
    \* upload_audio_video requests (backend), one at a time
    upPc,                \* position of the handler
    upRequests,          \* requests received so far
    file_mime,           \* the type libmagic finds in the uploaded bytes
    tmpdir,              \* names of the temporary files that exist
    tmp_created,         \* the file this request created
    tmp_path,            \* the handler's local tmp_path
    mime_type,           \* the handler's local mime_type
    whisper_called,      \* whisper_model.transcribe ran for this request
    upStatus, upDetail, upBody,
    \* the front-end session
    fePc,                \* position of the script run
    st_transcript,       \* st.session_state["transcript"]
    is_processing,       \* st.session_state["is_processing"]
    report_data,         \* st.session_state["report_data"]
    input_type,          \* the radio of line 17
    clicked,             \* the button whose press started this run
    posted,              \* the transcript this run sent to generate_report
    st_message           \* the st.error or st.warning of this run

cleanVars == <<cleanPc, generated_text, cleaned_text>>

reportVars == <<grPc, text, discussion_type, summary_output, keypoint_output,
                problem_solution_tech_output, action_item_output,
                invocations, llm_responses, raised, grStatus, grDetail,
                response>>

uploadVars == <<upPc, upRequests, file_mime, tmpdir, tmp_created, tmp_path,
                mime_type, whisper_called, upStatus, upDetail, upBody>>

frontendVars == <<fePc, st_transcript, is_processing, report_data, input_type,
                  clicked, posted, st_message>>

vars == <<cleanVars, reportVars, uploadVars, frontendVars>>

----------------------------------------------------------------------------
(* Text helpers *)

RECURSIVE Concat(_)
Concat(ss) == IF ss = <<>> THEN <<>> ELSE Head(ss) \o Concat(Tail(ss))

\* the two literals of the pattern r"<think>.*?</think>"
OPEN == <<"<", "t", "h", "i", "n", "k", ">">>
CLOSE == <<"<", "/", "t", "h", "i", "n", "k", ">">>

\* characters str.strip() removes
Whitespace == {" ", "\n", "\t", "\r"}

\* s[i..] starts with the literal m
IsAt(s, i, m) ==
    /\ i >= 1
    /\ i + Len(m) - 1 <= Len(s)
    /\ SubSeq(s, i, i + Len(m) - 1) = m

\* ".*?</think>" tried from position j: the lazy quantifier stops at the first
\* position >= j where "</think>" matches; with re.DOTALL "." matches any
\* character, the newline included. 0 when there is none.
\* a greedy ".*": the last close marker at or after j
GreedyClose(s, j) ==
    LET after == {k \in j..Len(s) : IsAt(s, k, CLOSE)}
    IN  IF after = {} THEN 0 ELSE CHOOSE k \in after : \A m \in after : m <= k

RECURSIVE LazyClose(_, _)
LazyClose(s, j) ==
    IF j > Len(s) THEN 0
    ELSE IF IsAt(s, j, CLOSE) THEN j
    ELSE LazyClose(s, j + 1)

\* re.sub(pattern, "", s): scan left to right; where the pattern matches the
\* match is dropped and the scan resumes after it; elsewhere the character
\* is copied.
RECURSIVE re_sub(_, _)
re_sub(s, i) ==
    IF i > Len(s) THEN <<>>
    ELSE IF IsAt(s, i, OPEN) /\ LazyClose(s, i + Len(OPEN)) # 0
         THEN re_sub(s, LazyClose(s, i + Len(OPEN)) + Len(CLOSE))
         ELSE <<s[i]>> \o re_sub(s, i + 1)

RECURSIVE lstrip(_)
lstrip(s) ==
    IF s # <<>> /\ Head(s) \in Whitespace THEN lstrip(Tail(s)) ELSE s

RECURSIVE rstrip(_)
rstrip(s) ==
    IF s # <<>> /\ s[Len(s)] \in Whitespace
    THEN rstrip(SubSeq(s, 1, Len(s) - 1))
    ELSE s

strip(s) == rstrip(lstrip(s))

clean_thought_blocks(raw) == strip(re_sub(raw, 1))

----------------------------------------------------------------------------
(* Raw model outputs the cleaner is applied to: every concatenation of at  *)
(* most MaxFrags fragments. "<th" and "ink>" are the halves of a marker    *)
(* split by other text.                                                    *)

MaxFrags == 5

Fragments == {OPEN, CLOSE, <<"<", "t", "h">>, <<"i", "n", "k", ">">>,
              <<"a">>, <<"\n">>}

RECURSIVE FragSeqs(_)
FragSeqs(n) ==
    IF n = 0 THEN {<<>>}
    ELSE LET shorter == FragSeqs(n - 1)
         IN  shorter \cup {Append(fs, f) : fs \in {x \in shorter : Len(x) = n - 1},
                                           f \in Fragments}

RawOutputs == {Concat(fs) : fs \in FragSeqs(MaxFrags)}

IdleClean ==
    /\ cleanPc = "off"
    /\ generated_text = <<>>
    /\ cleaned_text = <<>>

InitCleanVars ==
    /\ cleanPc = "raw"
    /\ generated_text \in RawOutputs
    /\ cleaned_text = <<>>

\* src/backend/main.py:163-164
CleanThoughtBlocks ==
    /\ cleanPc = "raw"
    /\ cleaned_text' = clean_thought_blocks(generated_text)
    /\ cleanPc' = "cleaned"
    /\ UNCHANGED generated_text
    /\ UNCHANGED <<reportVars, uploadVars, frontendVars>>

----------------------------------------------------------------------------
(* generate_report, src/backend/main.py:166-228 *)

\* Python's None and str in the JSON response
None == [kind |-> "None"]
Str(s) == [kind |-> "str", val |-> s]

\* a local variable not assigned yet: a label, a text or file name, a dict
UnboundLabel == "<unbound>"
Unbound == <<"<unbound>">>
UnboundDict == [kind |-> "<unbound>"]

\* src/backend/main.py:148-151
candidate_labels == <<"Technical Meeting", "Non-Technical Meeting">>

\* what the zero-shot pipeline returns in 'labels': the candidate labels
\* ordered by score
ClassifierOutputs ==
    {ls \in [1..Len(candidate_labels) -> {candidate_labels[k] : k \in 1..Len(candidate_labels)}] :
        \A a, b \in 1..Len(candidate_labels) : a # b => ls[a] # ls[b]}

\* src/frontend/main.py:64
MinWords == 50

\* len(s.split()): the maximal runs of non-whitespace characters
word_count(s) ==
    Cardinality({i \in 1..Len(s) :
                    s[i] \notin Whitespace /\ (i = 1 \/ s[i - 1] \in Whitespace)})

\* n words separated by single blanks, with pad blanks before and after
RECURSIVE WordsText(_)
WordsText(n) ==
    IF n = 0 THEN <<>>
    ELSE IF n = 1 THEN <<"w">>
    ELSE WordsText(n - 1) \o <<" ", "w">>

Blanks(pad) == [k \in 1..pad |-> " "]

\* transcripts a request may carry: empty, blank, and around the threshold
Transcripts ==
    {Blanks(pad) \o WordsText(n) \o Blanks(pad) :
        n \in {0, 1, MinWords - 1, MinWords, MinWords + 1}, pad \in {0, 1}}

\* raw language-model outputs: plain, with a reasoning block, with a stray
\* close marker and surrounding whitespace
LlmOutputs ==
    { <<"a">>,
      OPEN \o <<"a", "\n">> \o CLOSE \o <<"\n", "b">>,
      <<" ">> \o CLOSE \o <<"c", "\n">> }

\* what a failing model call raises
Errors == {"classifier failed", "ollama unreachable"}

IdleReport ==
    /\ grPc = "off"
    /\ text = <<>>
    /\ discussion_type = UnboundLabel
    /\ summary_output = Unbound
    /\ keypoint_output = Unbound
    /\ problem_solution_tech_output = Unbound
    /\ action_item_output = Unbound
    /\ invocations = <<>>
    /\ llm_responses = <<>>
    /\ raised = "none"
    /\ grStatus = 0
    /\ grDetail = <<>>
    /\ response = UnboundDict

\* a request has arrived; the handler has not started (line 178)
InitReportVars ==
    /\ grPc = "classify"
    /\ text \in Transcripts
    /\ discussion_type = UnboundLabel
    /\ summary_output = Unbound
    /\ keypoint_output = Unbound
    /\ problem_solution_tech_output = Unbound
    /\ action_item_output = Unbound
    /\ invocations = <<>>
    /\ llm_responses = <<>>
    /\ raised = "none"
    /\ grStatus = 0
    /\ grDetail = <<>>
    /\ response = UnboundDict

\* line 193 comparing with a label the classifier never returns
IsTechnicalMisspelt(dt) == dt = "Technical"

\* line 193 taking the technical branch whatever the label
IsTechnicalAlways(dt) == TRUE

\* line 193

IsTechnical(dt) == dt = "Technical Meeting"

\* lines 201-207, with the last two fields exchanged
TechnicalResponseSwapped(dt, s, k, p, a) ==
    [discussion_type |-> dt, summary |-> Str(s), keypoint |-> Str(k),
     problem_solution_tech |-> Str(a), action_item |-> Str(p)]

\* lines 201-207
TechnicalResponse(dt, s, k, p, a) ==
    [discussion_type |-> dt, summary |-> Str(s), keypoint |-> Str(k),
     problem_solution_tech |-> Str(p), action_item |-> Str(a)]

\* lines 210-216
NonTechnicalResponse(dt, s, k) ==
    [discussion_type |-> dt, summary |-> Str(s), keypoint |-> Str(k),
     problem_solution_tech |-> None, action_item |-> None]

\* a handler that answers a failed call with what it has so far
ExceptReturnsPartial(e) ==
    /\ raised' = e
    /\ grStatus' = 200
    /\ grDetail' = <<>>
    /\ response' = [discussion_type |-> discussion_type,
                    summary |-> IF summary_output = Unbound THEN None
                                ELSE Str(summary_output),
                    keypoint |-> IF keypoint_output = Unbound THEN None
                                 ELSE Str(keypoint_output),
                    problem_solution_tech |-> None, action_item |-> None]
    /\ grPc' = "done"

\* lines 225-228: except Exception as e: raise HTTPException(500, ...)
Except(e) ==
    /\ raised' = e
    /\ grStatus' = 500
    /\ grDetail' = <<"Error generating report: ", e>>
    /\ response' = UnboundDict
    /\ grPc' = "done"

\* line 223: return response
Return(r) ==
    /\ UNCHANGED raised
    /\ grStatus' = 200
    /\ grDetail' = <<>>
    /\ response' = r
    /\ grPc' = "done"

\* lines 179-182: text = req.transcript; classifier(text, candidate_labels)
Classify ==
    /\ grPc = "classify"
    /\ invocations' = Append(invocations, "classifier")
    /\ \/ \E out \in ClassifierOutputs :
            /\ discussion_type' = out[1]
            /\ grPc' = "summary"
            /\ UNCHANGED <<raised, grStatus, grDetail, response>>
       \/ \E e \in Errors :
            /\ Except(e)
            /\ UNCHANGED discussion_type
    /\ UNCHANGED <<text, summary_output, keypoint_output,
                   problem_solution_tech_output, action_item_output,
                   llm_responses>>
    /\ UNCHANGED <<cleanVars, uploadVars, frontendVars>>

\* lines 186, 189: summary_chain.run(text), cleaned
RunSummary ==
    /\ grPc = "summary"
    /\ invocations' = Append(invocations, "summary")
    /\ \/ \E raw \in LlmOutputs :
            /\ llm_responses' = Append(llm_responses, raw)
            /\ summary_output' = clean_thought_blocks(raw)
            /\ grPc' = "keypoints"
            /\ UNCHANGED <<raised, grStatus, grDetail, response>>
       \/ \E e \in Errors :
            /\ Except(e)
            /\ UNCHANGED <<llm_responses, summary_output>>
    /\ UNCHANGED <<text, discussion_type, keypoint_output,
                   problem_solution_tech_output, action_item_output>>
    /\ UNCHANGED <<cleanVars, uploadVars, frontendVars>>

\* lines 187, 190, 193 and, for any other label, 209-223
RunKeypoints ==
    /\ grPc = "keypoints"
    /\ invocations' = Append(invocations, "keypoints")
    /\ \/ \E raw \in LlmOutputs :
            /\ llm_responses' = Append(llm_responses, raw)
            /\ keypoint_output' = clean_thought_blocks(raw)
            /\ IF IsTechnical(discussion_type)
               THEN /\ grPc' = "problem_solution_tech"
                    /\ UNCHANGED <<raised, grStatus, grDetail, response>>
               ELSE Return(NonTechnicalResponse(discussion_type, summary_output,
                                                keypoint_output'))
       \/ \E e \in Errors :
            /\ Except(e)
            /\ UNCHANGED <<llm_responses, keypoint_output>>
    /\ UNCHANGED <<text, discussion_type, summary_output,
                   problem_solution_tech_output, action_item_output>>
    /\ UNCHANGED <<cleanVars, uploadVars, frontendVars>>

\* lines 194, 197
RunProblemSolutionTech ==
    /\ grPc = "problem_solution_tech"
    /\ invocations' = Append(invocations, "problem_solution_tech")
    /\ \/ \E raw \in LlmOutputs :
            /\ llm_responses' = Append(llm_responses, raw)
            /\ problem_solution_tech_output' = clean_thought_blocks(raw)
            /\ grPc' = "action_items"
            /\ UNCHANGED <<raised, grStatus, grDetail, response>>
       \/ \E e \in Errors :
            /\ Except(e)
            /\ UNCHANGED <<llm_responses, problem_solution_tech_output>>
    /\ UNCHANGED <<text, discussion_type, summary_output, keypoint_output,
                   action_item_output>>
    /\ UNCHANGED <<cleanVars, uploadVars, frontendVars>>

\* lines 195, 198, 201-207, 223
RunActionItems ==
    /\ grPc = "action_items"
    /\ invocations' = Append(invocations, "action_items")
    /\ \/ \E raw \in LlmOutputs :
            /\ llm_responses' = Append(llm_responses, raw)
            /\ action_item_output' = clean_thought_blocks(raw)
            /\ Return(TechnicalResponse(discussion_type, summary_output,
                                        keypoint_output,
                                        problem_solution_tech_output,
                                        action_item_output'))
       \/ \E e \in Errors :
            /\ Except(e)
            /\ UNCHANGED <<llm_responses, action_item_output>>
    /\ UNCHANGED <<text, discussion_type, summary_output, keypoint_output,
                   problem_solution_tech_output>>
    /\ UNCHANGED <<cleanVars, uploadVars, frontendVars>>

----------------------------------------------------------------------------
(* upload_audio_video, src/backend/main.py:32-75 *)

MaxRequests == 3

AUDIO_PREFIX == <<"a", "u", "d", "i", "o", "/">>
VIDEO_PREFIX == <<"v", "i", "d", "e", "o", "/">>

\* types libmagic may report
MimeTypes ==
    { AUDIO_PREFIX \o <<"m", "p", "e", "g">>,
      VIDEO_PREFIX \o <<"m", "p", "4">>,
      <<"i", "m", "a", "g", "e", "/", "p", "n", "g">>,
      <<"t", "e", "x", "t", "/", "p", "l", "a", "i", "n">> }

\* the name NamedTemporaryFile gives the file of the n-th request
TmpName(n) == <<"tmp", n>>

startswith(s, prefix) == IsAt(s, 1, prefix)

\* line 60
Unsupported(m) == ~startswith(m, AUDIO_PREFIX) /\ ~startswith(m, VIDEO_PREFIX)

\* result["text"] of a successful transcription
WhisperTexts == {WordsText(2)}

IdleUpload ==
    /\ upPc = "off"
    /\ upRequests = 0
    /\ file_mime = <<>>
    /\ tmpdir = {}
    /\ tmp_created = Unbound
    /\ tmp_path = Unbound
    /\ mime_type = Unbound
    /\ whisper_called = FALSE
    /\ upStatus = 0
    /\ upDetail = <<>>
    /\ upBody = UnboundDict

\* the server is up, no request received yet
InitUploadVars ==
    /\ upPc = "idle"
    /\ upRequests = 0
    /\ file_mime = <<>>
    /\ tmpdir = {}
    /\ tmp_created = Unbound
    /\ tmp_path = Unbound
    /\ mime_type = Unbound
    /\ whisper_called = FALSE
    /\ upStatus = 0
    /\ upDetail = <<>>
    /\ upBody = UnboundDict

\* an exception leaves the handler uncaught: the server answers 500
Unhandled(e) ==
    /\ upStatus' = 500
    /\ upDetail' = <<"Internal Server Error", e>>
    /\ upBody' = UnboundDict
    /\ upPc' = "done"

\* lines 71-75, entered with exception e and the directory as it is then:
\* os.remove(tmp_path) raises when tmp_path was never assigned or the file
\* is gone, and that exception leaves the handler; otherwise HTTP 500.
ExceptHandler(e, dir) ==
    IF tmp_path' = Unbound
    THEN /\ Unhandled("UnboundLocalError")
         /\ tmpdir' = dir
    ELSE IF tmp_path' \notin dir
    THEN /\ Unhandled("FileNotFoundError")
         /\ tmpdir' = dir
    ELSE /\ tmpdir' = dir \ {tmp_path'}
         /\ upStatus' = 500
         /\ upDetail' = <<"Error processing file: ", e>>
         /\ upBody' = UnboundDict
         /\ upPc' = "done"

\* a request arrives; the handler's locals are fresh
ReceiveUpload ==
    /\ upPc \in {"idle", "done"}
    /\ upRequests < MaxRequests
    /\ upRequests' = upRequests + 1
    /\ file_mime' \in MimeTypes
    /\ tmp_created' = Unbound
    /\ tmp_path' = Unbound
    /\ mime_type' = Unbound
    /\ whisper_called' = FALSE
    /\ upStatus' = 0
    /\ upDetail' = <<>>
    /\ upBody' = UnboundDict
    /\ upPc' = "create"
    /\ UNCHANGED tmpdir
    /\ UNCHANGED <<cleanVars, reportVars, frontendVars>>

\* line 51: tempfile.NamedTemporaryFile(delete=False), a fresh name
CreateTemporaryFile ==
    /\ upPc = "create"
    /\ \/ /\ tmp_created' = TmpName(upRequests)
          /\ tmpdir' = tmpdir \cup {TmpName(upRequests)}
          /\ upPc' = "read"
          /\ UNCHANGED <<tmp_path, upStatus, upDetail, upBody>>
       \/ /\ UNCHANGED <<tmp_created, tmp_path>>
          /\ ExceptHandler("OSError", tmpdir)
    /\ UNCHANGED <<upRequests, file_mime, mime_type, whisper_called>>
    /\ UNCHANGED <<cleanVars, reportVars, frontendVars>>

\* line 52: await file.read()
ReadUpload ==
    /\ upPc = "read"
    /\ \/ /\ upPc' = "write"
          /\ UNCHANGED <<tmp_path, tmpdir, upStatus, upDetail, upBody>>
       \/ /\ UNCHANGED tmp_path
          /\ ExceptHandler("read failed", tmpdir)
    /\ UNCHANGED <<upRequests, file_mime, tmp_created, mime_type, whisper_called>>
    /\ UNCHANGED <<cleanVars, reportVars, frontendVars>>

\* lines 53-54: tmp.write(file_content); tmp_path = tmp.name
WriteTemporaryFile ==
    /\ upPc = "write"
    /\ \/ /\ tmp_path' = tmp_created
          /\ upPc' = "detect"
          /\ UNCHANGED <<tmpdir, upStatus, upDetail, upBody>>
       \/ /\ UNCHANGED tmp_path
          /\ ExceptHandler("write failed", tmpdir)
    /\ UNCHANGED <<upRequests, file_mime, tmp_created, mime_type, whisper_called>>
    /\ UNCHANGED <<cleanVars, reportVars, frontendVars>>

\* lines 57-65: magic.from_file, and for an unsupported type os.remove and
\* raise HTTPException(400), which the except Exception of line 71 catches
DetectMimeType ==
    /\ upPc = "detect"
    /\ UNCHANGED tmp_path
    /\ \/ /\ mime_type' = file_mime
          /\ IF Unsupported(mime_type')
             THEN ExceptHandler("HTTPException 400", tmpdir \ {tmp_path})
             ELSE /\ upPc' = "transcribe"
                  /\ UNCHANGED <<tmpdir, upStatus, upDetail, upBody>>
       \/ /\ UNCHANGED mime_type
          /\ ExceptHandler("magic failed", tmpdir)
    /\ UNCHANGED <<upRequests, file_mime, tmp_created, whisper_called>>
    /\ UNCHANGED <<cleanVars, reportVars, frontendVars>>

\* lines 67-70: whisper_model.transcribe(tmp_path); os.remove; return
Transcribe ==
    /\ upPc = "transcribe"
    /\ whisper_called' = TRUE
    /\ UNCHANGED tmp_path
    /\ \/ \E t \in WhisperTexts :
            /\ tmpdir' = tmpdir \ {tmp_path}
            /\ upStatus' = 200
            /\ upDetail' = <<>>
            /\ upBody' = [transcript |-> t]
            /\ upPc' = "done"
       \/ ExceptHandler("whisper failed", tmpdir)
    /\ UNCHANGED <<upRequests, file_mime, tmp_created, mime_type>>
    /\ UNCHANGED <<cleanVars, reportVars, frontendVars>>

----------------------------------------------------------------------------
(* The Streamlit script, src/frontend/main.py: each user interaction runs  *)
(* it from the top; st.session_state lasts across runs.                    *)

\* src/frontend/main.py:36
MaxUploadBytes == 100 * 1024 * 1024

InputTypes == {"Audio/Video File", "Direct Transcript"}

\* st.file_uploader: None, or a file of some size
UploadedFiles ==
    {None} \cup {[size |-> n] : n \in {1, MaxUploadBytes, MaxUploadBytes + 1}}

Buttons == {"none", "Transcribe", "Generate Report"}

\* reports the backend may answer with
BackendReports ==
    { TechnicalResponse("Technical Meeting", <<"s">>, <<"k">>, <<"p">>, <<"a">>),
      NonTechnicalResponse("Non-Technical Meeting", <<"s">>, <<"k">>) }

\* what requests.post may return: an HTTP status; raise_for_status raises
\* HTTPError for 4xx and 5xx. A connection failure raises before any status.
HttpStatuses == {200, 400, 500}

raise_for_status(status) == status >= 400 /\ status < 600

IdleFrontend ==
    /\ fePc = "off"
    /\ st_transcript = <<>>
    /\ is_processing = FALSE
    /\ report_data = None
    /\ input_type = "Audio/Video File"
    /\ clicked = "none"
    /\ posted = Unbound
    /\ st_message = "none"

\* lines 24-29: the session state of a new session
InitFrontendVars ==
    /\ fePc = "idle"
    /\ st_transcript = <<>>
    /\ is_processing = FALSE
    /\ report_data = None
    /\ input_type = "Audio/Video File"
    /\ clicked = "none"
    /\ posted = Unbound
    /\ st_message = "none"

\* is_processing reset only when the request succeeded
FinishProcessingOnSuccess(ok) ==
    is_processing' = IF ok THEN FALSE ELSE is_processing

\* lines 49 and 75
FinishProcessing(ok) == is_processing' = FALSE

\* lines 17-56: the widgets are read and the input section runs, up to the
\* POST of line 44 when Transcribe was pressed
RunInputSection ==
    /\ fePc = "idle"
    /\ st_message' = "none"
    /\ posted' = Unbound
    /\ \E it \in InputTypes, uploaded_file \in UploadedFiles, b \in Buttons,
          text_area \in Transcripts :
          /\ input_type' = it
          /\ clicked' = b
          /\ IF it = "Audio/Video File"
             THEN /\ UNCHANGED st_transcript
                  /\ IF uploaded_file # None /\ uploaded_file.size <= MaxUploadBytes
                        /\ b = "Transcribe" /\ ~is_processing
                     THEN /\ is_processing' = TRUE
                          /\ fePc' = "transcribing"
                     ELSE /\ UNCHANGED is_processing
                          /\ fePc' = "generate_section"
             ELSE /\ st_transcript' = text_area
                  /\ UNCHANGED is_processing
                  /\ fePc' = "generate_section"
    /\ UNCHANGED report_data
    /\ UNCHANGED <<cleanVars, reportVars, uploadVars>>

\* lines 44-49: the reply to the POST of line 44
TranscribeReply ==
    /\ fePc = "transcribing"
    /\ \/ \E status \in HttpStatuses, t \in WhisperTexts \cup {<<>>} :
            IF raise_for_status(status)
            THEN /\ st_message' = "Transcription failed"
                 /\ UNCHANGED st_transcript
                 /\ FinishProcessing(FALSE)
            ELSE /\ st_transcript' = t
                 /\ UNCHANGED st_message
                 /\ FinishProcessing(TRUE)
       \/ /\ st_message' = "Transcription failed"
          /\ UNCHANGED st_transcript
          /\ FinishProcessing(FALSE)
    /\ fePc' = "generate_section"
    /\ UNCHANGED <<report_data, input_type, clicked, posted>>
    /\ UNCHANGED <<cleanVars, reportVars, uploadVars>>

\* lines 59-70: the Generate Report button, up to the POST of line 70
RunGenerateSection ==
    /\ fePc = "generate_section"
    /\ IF clicked = "Generate Report" /\ ~is_processing /\ strip(st_transcript) # <<>>
       THEN IF word_count(strip(st_transcript)) < MinWords
            THEN /\ st_message' = "Transcript has less than 50 words"
                 /\ fePc' = "render"
                 /\ UNCHANGED <<is_processing, posted>>
            ELSE /\ is_processing' = TRUE
                 /\ posted' = st_transcript
                 /\ fePc' = "generating"
                 /\ UNCHANGED st_message
       ELSE /\ fePc' = "render"
            /\ UNCHANGED <<is_processing, posted, st_message>>
    /\ UNCHANGED <<st_transcript, report_data, input_type, clicked>>
    /\ UNCHANGED <<cleanVars, reportVars, uploadVars>>

\* lines 70-75: the reply to the POST of line 70
GenerateReply ==
    /\ fePc = "generating"
    /\ \/ \E status \in HttpStatuses, r \in BackendReports :
            IF raise_for_status(status)
            THEN /\ st_message' = "Error during report generation"
                 /\ UNCHANGED report_data
                 /\ FinishProcessing(FALSE)
            ELSE /\ report_data' = r
                 /\ UNCHANGED st_message
                 /\ FinishProcessing(TRUE)
       \/ /\ st_message' = "Error during report generation"
          /\ UNCHANGED report_data
          /\ FinishProcessing(FALSE)
    /\ fePc' = "render"
    /\ UNCHANGED <<st_transcript, input_type, clicked, posted>>
    /\ UNCHANGED <<cleanVars, reportVars, uploadVars>>

\* lines 77-178: the report is laid out and the run ends
Render ==
    /\ fePc = "render"
    /\ fePc' = "idle"
    /\ UNCHANGED <<st_transcript, is_processing, report_data, input_type,
                   clicked, posted, st_message>>
    /\ UNCHANGED <<cleanVars, reportVars, uploadVars>>

----------------------------------------------------------------------------
(* Specifications *)

\* the cleaner alone, on every raw output of RawOutputs
InitClean == InitCleanVars /\ IdleReport /\ IdleUpload /\ IdleFrontend

NextClean == CleanThoughtBlocks

SpecClean == InitClean /\ [][NextClean]_vars

\* one generate_report request
InitReport == InitReportVars /\ IdleClean /\ IdleUpload /\ IdleFrontend

NextReport ==
    \/ Classify
    \/ RunSummary
    \/ RunKeypoints
    \/ RunProblemSolutionTech
    \/ RunActionItems

SpecReport == InitReport /\ [][NextReport]_vars

\* upload_audio_video requests
InitUpload == InitUploadVars /\ IdleClean /\ IdleReport /\ IdleFrontend

NextUpload ==
    \/ ReceiveUpload
    \/ CreateTemporaryFile
    \/ ReadUpload
    \/ WriteTemporaryFile
    \/ DetectMimeType
    \/ Transcribe

SpecUpload == InitUpload /\ [][NextUpload]_vars

\* one front-end session
InitFrontend == InitFrontendVars /\ IdleClean /\ IdleReport /\ IdleUpload

NextFrontend ==
    \/ RunInputSection
    \/ TranscribeReply
    \/ RunGenerateSection
    \/ GenerateReply
    \/ Render

SpecFrontend == InitFrontend /\ [][NextFrontend]_vars

----------------------------------------------------------------------------
(* Reasoning blocks, stated on positions of the raw text rather than by a  *)
(* scan: the vocabulary of the properties of the cleaner.                  *)

OpenAt(s) == {i \in 1..Len(s) : IsAt(s, i, OPEN)}
CloseAt(s) == {j \in 1..Len(s) : IsAt(s, j, CLOSE)}

Min(S) == CHOOSE x \in S : \A y \in S : x <= y

\* close markers lying wholly after the open marker at i
ClosesAfter(s, i) == {j \in CloseAt(s) : j >= i + Len(OPEN)}

\* an open marker followed later by a close marker
HasMarkerPair(s) == \E i \in OpenAt(s) : ClosesAfter(s, i) # {}

\* Positions covered by the complete blocks of s[from..]: the leftmost open
\* marker that has a close marker after it, up to the end of the nearest such
\* close marker, and then the blocks of what follows.
RECURSIVE BlockPositions(_, _)
BlockPositions(s, from) ==
    LET starts == {i \in OpenAt(s) : i >= from /\ ClosesAfter(s, i) # {}}
    IN  IF starts = {} THEN {}
        ELSE LET i == Min(starts)
                 j == Min(ClosesAfter(s, i))
             IN  (i..(j + Len(CLOSE) - 1)) \cup BlockPositions(s, j + Len(CLOSE))

\* the characters of s at the positions not in P, in their original order
RECURSIVE Outside(_, _, _)
Outside(s, P, i) ==
    IF i > Len(s) THEN <<>>
    ELSE (IF i \in P THEN <<>> ELSE <<s[i]>>) \o Outside(s, P, i + 1)

\* t is s without its leading and trailing whitespace
IsTrimOf(t, s) ==
    \E a \in 0..Len(s) : \E b \in 0..(Len(s) - a) :
        /\ \A k \in 1..a : s[k] \in Whitespace
        /\ \A k \in (Len(s) - b + 1)..Len(s) : s[k] \in Whitespace
        /\ t = SubSeq(s, a + 1, Len(s) - b)
        /\ t # <<>> => (t[1] \notin Whitespace /\ t[Len(t)] \notin Whitespace)

\* C7: clean removes each complete reasoning block separately (from an open
\* marker to the nearest following close marker, line breaks included), keeps
\* the text outside the blocks in its original order and trims the result;
\* with no marker pair the result is exactly the trimmed input.
C7_CleanRemovesEachBlock ==
    cleanPc = "cleaned" =>
        /\ IsTrimOf(cleaned_text,
                    Outside(generated_text, BlockPositions(generated_text, 1), 1))
        /\ ~HasMarkerPair(generated_text) => IsTrimOf(cleaned_text, generated_text)

\* C7 witness: two blocks with text between them; the text between is all
\* that is left.
C7_Witness ==
    /\ cleanPc = "cleaned"
    /\ generated_text = Concat(<<OPEN, CLOSE, <<"a">>, OPEN, CLOSE>>)
    /\ cleaned_text = <<"a">>

\* C8: the cleaned text never contains an open marker followed later by a
\* close marker, whatever the raw model output.
C8_NoReasoningBlockInOutput ==
    cleanPc = "cleaned" => ~HasMarkerPair(cleaned_text)

----------------------------------------------------------------------------
(* Properties of generate_report, under SpecReport *)

\* C1: in every report returned, problem_solution_tech and action_item are
\* both None or both strings, and they are strings exactly when
\* discussion_type is "Technical Meeting".
C1_TechnicalFieldsTogether ==
    grStatus = 200 =>
        /\ response.problem_solution_tech = None <=> response.action_item = None
        /\ response.problem_solution_tech # None
              <=> response.discussion_type = "Technical Meeting"
        /\ \A f \in {response.problem_solution_tech, response.action_item} :
              f # None => f.kind = "str"

\* C1 witness: a report for a technical meeting, both fields filled
C1_Witness ==
    /\ grStatus = 200
    /\ response.discussion_type = "Technical Meeting"
    /\ response.problem_solution_tech # None
    /\ response.action_item # None

NoDuplicates(seq) == \A i, j \in 1..Len(seq) : i # j => seq[i] # seq[j]

\* C4: when the classifier or a language-model call fails, the request ends
\* at once with HTTP 500 and a detail naming the cause, no report body is
\* produced, and no call is made twice.
C4_FailFastNoPartialReport ==
    /\ NoDuplicates(invocations)
    /\ raised # "none" =>
          /\ grPc = "done"
          /\ grStatus = 500
          /\ grDetail = <<"Error generating report: ", raised>>
          /\ response = UnboundDict

\* C4 witness: the third language-model call fails after two succeeded
C4_Witness ==
    /\ raised # "none"
    /\ invocations = <<"classifier", "summary", "keypoints", "problem_solution_tech">>
    /\ summary_output # Unbound
    /\ keypoint_output # Unbound
    /\ grStatus = 500

\* C5: a request whose transcript is empty or has fewer than MinWords words
\* is rejected before any model is invoked.
C5_ShortTranscriptNeverReachesModels ==
    (strip(text) = <<>> \/ word_count(strip(text)) < MinWords) =>
        /\ invocations = <<>>
        /\ grPc = "done" => grStatus \in 400..499

\* C6: the k-th raw output of the language model, cleaned, is the k-th of
\* summary, keypoint, problem_solution_tech, action_item.
C6_ResponsesMappedToFields ==
    grStatus = 200 =>
        /\ response.summary = Str(clean_thought_blocks(llm_responses[1]))
        /\ response.keypoint = Str(clean_thought_blocks(llm_responses[2]))
        /\ discussion_type = "Technical Meeting" =>
              /\ response.problem_solution_tech
                    = Str(clean_thought_blocks(llm_responses[3]))
              /\ response.action_item
                    = Str(clean_thought_blocks(llm_responses[4]))
        /\ discussion_type = "Non-Technical Meeting" => Len(llm_responses) = 2

\* C6 witness: a technical report built from four raw outputs of which the
\* third and fourth differ after cleaning
C6_Witness ==
    /\ grStatus = 200
    /\ discussion_type = "Technical Meeting"
    /\ Len(llm_responses) = 4
    /\ response.summary # response.keypoint
    /\ response.problem_solution_tech # response.action_item
    /\ response.action_item = Str(<<"b">>)

IsPrefix(a, b) == Len(a) <= Len(b) /\ SubSeq(b, 1, Len(a)) = a

ExpectedInvocations(dt) ==
    IF dt = "Technical Meeting"
    THEN <<"classifier", "summary", "keypoints", "problem_solution_tech",
           "action_items">>
    ELSE <<"classifier", "summary", "keypoints">>

\* C9: the calls are made one after another in the order classifier,
\* summary, key points and, for a technical meeting only, problem/solution/
\* tech and action items; no language-model call precedes the classifier's
\* answer; a report costs exactly two language-model calls for a
\* non-technical meeting and four for a technical one.
C9_InvocationOrder ==
    /\ discussion_type = UnboundLabel => invocations \in {<<>>, <<"classifier">>}
    /\ discussion_type # UnboundLabel =>
          /\ invocations # <<>>
          /\ IsPrefix(invocations, ExpectedInvocations(discussion_type))
    /\ grStatus = 200 =>
          /\ invocations = ExpectedInvocations(discussion_type)
          /\ Len(llm_responses) = Len(invocations) - 1
    /\ discussion_type = "Non-Technical Meeting" =>
          \A k \in 1..Len(invocations) :
              invocations[k] \notin {"problem_solution_tech", "action_items"}

\* C9 witness: a non-technical report after exactly two language-model calls
C9_Witness ==
    /\ grStatus = 200
    /\ discussion_type = "Non-Technical Meeting"
    /\ invocations = <<"classifier", "summary", "keypoints">>
    /\ Len(llm_responses) = 2

----------------------------------------------------------------------------
(* Properties of upload_audio_video, under SpecUpload *)

\* C2: an upload whose detected type starts with neither "audio/" nor
\* "video/" is answered with HTTP 400, and whisper is never invoked for it.
C2_UnsupportedTypeRejectedWith400 ==
    (upPc = "done" /\ mime_type # Unbound /\ Unsupported(mime_type)) =>
        /\ upStatus = 400
        /\ ~whisper_called

\* C3: once the handler has finished, the temporary file it created no
\* longer exists.
C3_TemporaryFileRemoved ==
    upPc = "done" => tmp_created \notin tmpdir

----------------------------------------------------------------------------
(* Properties of the front end, under SpecFrontend *)

FrontendPostsOnlyLongTranscripts ==
    posted # Unbound => word_count(strip(posted)) >= MinWords

====
